---- MODULE Spec2Model ----
(***************************************************************************)
(* The optical-flow dataset composer of tf_raft/datasets/dataset.py:       *)
(* FlowDataset with its five format variants, the composition operators    *)
(* __add__ and __rmul__, shuffle(), the item access __getitem__ and the    *)
(* generator entry point __call__.                                         *)
(*                                                                         *)
(* Python's object model is kept where the code depends on it: the         *)
(* elements of image_list are list objects [img1, img2], so each carries   *)
(* the identity (ref) of its list object; copy.deepcopy allocates new      *)
(* objects, list += and list *= copy references.                           *)
(***************************************************************************)
EXTENDS Integers, Sequences, FiniteSets, TLC

VARIABLES datasets, last, iter, scan, px

vars == <<datasets, last, iter, scan, px>>

(***************************************************************************)
(* Bounds of the model.                                                    *)
(***************************************************************************)
MaxDatasets == 2
MaxIterDatasets == 2
MaxLen == 2
MaxRepeat == 2
MaxIndex == 5
MaxIter == 5
MaxFiles == 3
MaxScanDirs == 1

(***************************************************************************)
(* Generic helpers.                                                        *)
(***************************************************************************)
Min(a, b) == IF a < b THEN a ELSE b

Max(a, b) == IF a < b THEN b ELSE a

RECURSIVE Flatten(_)
Flatten(ss) == IF ss = <<>> THEN <<>> ELSE Head(ss) \o Flatten(Tail(ss))

RECURSIVE Repeat(_, _)
Repeat(s, k) == IF k <= 0 THEN <<>> ELSE s \o Repeat(s, k - 1)

PermTable ==
    [n \in 0..(MaxLen + 1) |->
        {p \in [1..n -> 1..n] : \A i, j \in 1..n : p[i] = p[j] => i = j}]

Perms(n) == PermTable[n]

(***************************************************************************)
(* File paths and sample references.  A directory listing is the sorted    *)
(* glob of the code: the n-th file of directory d of a kind.               *)
(***************************************************************************)
Path(kind, d, n) == <<kind, d, n>>

NoPath == Path("none", 0, 0)

Pair(a, b) == [ref |-> <<0, 0>>, img1 |-> a, img2 |-> b]

NoAugmentor == <<"None", "none">>

AugParams == {"none", "p1"}

(***************************************************************************)
(* FlowDataset.__init__                                                    *)
(***************************************************************************)
FlowDataset(aug_params, sparse) ==
    [augmentor  |-> IF aug_params # "none"
                    THEN IF sparse THEN <<"SparseFlowAugmentor", aug_params>>
                                   ELSE <<"FlowAugmentor", aug_params>>
                    ELSE NoAugmentor,
     sparse     |-> sparse,
     is_test    |-> FALSE,
     flow_list  |-> <<>>,
     image_list |-> <<>>,
     extra_info |-> <<>>]

Built(d) == [exc |-> "none", ds |-> d]

Raised(e, d) == [exc |-> e, ds |-> d]

(***************************************************************************)
(* MpiSintel.__init__: scenes is the listing of image_root, each scene     *)
(* with its number of png frames and of flo files.                         *)
(***************************************************************************)
SintelScenePairs(sc) ==
    [i \in 1..Max(sc.png - 1, 0) |->
        Pair(Path("sintel_png", sc.scene, i), Path("sintel_png", sc.scene, i + 1))]

SintelSceneInfo(sc) ==
    [i \in 1..Max(sc.png - 1, 0) |-> <<"scene_frame", sc.scene, i - 1>>]

SintelSceneFlows(sc) == [i \in 1..sc.flo |-> Path("sintel_flo", sc.scene, i)]

MpiSintel(aug_params, split, scenes) ==
    LET base == FlowDataset(aug_params, FALSE) IN
    Built([base EXCEPT
        !.is_test    = (split = "test"),
        !.image_list = Flatten([s \in DOMAIN scenes |-> SintelScenePairs(scenes[s])]),
        !.extra_info = Flatten([s \in DOMAIN scenes |-> SintelSceneInfo(scenes[s])]),
        !.flow_list  = IF split # "test"
                       THEN Flatten([s \in DOMAIN scenes |-> SintelSceneFlows(scenes[s])])
                       ELSE <<>>])

(***************************************************************************)
(* FlyingChairs.__init__: nImages ppm files, nFlows flo files, the split   *)
(* file read as split_list.  np.loadtxt returns a 0-d array for a file of  *)
(* one number, which cannot be indexed.                                    *)
(***************************************************************************)
\* The check with an exact count in place of the floor division.
ChairsCountsExact(nImages, nFlows) == nImages = 2 * nFlows

ChairsCountsOk(nImages, nFlows) == (nImages \div 2) = nFlows

ChairsSelected(split, xid) ==
    \/ split = "training" /\ xid = 1
    \/ split = "validation" /\ xid = 2

RECURSIVE ChairsLoop(_, _, _, _, _)
ChairsLoop(d, split, split_list, nFlows, i) ==
    IF i > nFlows THEN Built(d)
    ELSE IF i > Len(split_list) \/ Len(split_list) = 1 THEN Raised("IndexError", d)
    ELSE IF ChairsSelected(split, split_list[i])
         THEN ChairsLoop([d EXCEPT
                  !.flow_list  = @ \o <<Path("chairs_flo", 0, i)>>,
                  !.image_list = @ \o <<Pair(Path("chairs_ppm", 0, 2 * i - 1),
                                             Path("chairs_ppm", 0, 2 * i))>>],
                  split, split_list, nFlows, i + 1)
         ELSE ChairsLoop(d, split, split_list, nFlows, i + 1)

FlyingChairs(aug_params, split, nImages, nFlows, split_list) ==
    LET base == FlowDataset(aug_params, FALSE) IN
    IF ~ChairsCountsOk(nImages, nFlows) THEN Raised("AssertionError", base)
    ELSE ChairsLoop(base, split, split_list, nFlows, 1)

(***************************************************************************)
(* FlyingThings3D.__init__: dirs is the zip of image_dirs and flow_dirs,   *)
(* each pair with its number of png frames and of pfm flows per direction. *)
(* Both directions are scanned over all directory pairs, into_future       *)
(* first.                                                                  *)
(***************************************************************************)
ThingsFlowCount(dir, direction) ==
    IF direction = "into_future" THEN dir.future ELSE dir.past

\* The backward direction taking the flow of the earlier frame.
ThingsSampleEarlierFlow(d, direction, i) ==
    IF direction = "into_future"
    THEN [image |-> Pair(Path("things_png", d, i), Path("things_png", d, i + 1)),
          flow  |-> Path("things_into_future", d, i)]
    ELSE [image |-> Pair(Path("things_png", d, i + 1), Path("things_png", d, i)),
          flow  |-> Path("things_into_past", d, i)]

ThingsSample(d, direction, i) ==
    IF direction = "into_future"
    THEN [image |-> Pair(Path("things_png", d, i), Path("things_png", d, i + 1)),
          flow  |-> Path("things_into_future", d, i)]
    ELSE [image |-> Pair(Path("things_png", d, i + 1), Path("things_png", d, i)),
          flow  |-> Path("things_into_past", d, i + 1)]

ThingsDirSamples(dirs, d, direction) ==
    [i \in 1..Max(ThingsFlowCount(dirs[d], direction) - 1, 0) |->
        ThingsSample(d, direction, i)]

ThingsSamples(dirs) ==
    Flatten([k \in 1..2 |->
        Flatten([d \in DOMAIN dirs |->
            ThingsDirSamples(dirs, d, IF k = 1 THEN "into_future" ELSE "into_past")])])

ThingsIndexError(dirs) ==
    \E d \in DOMAIN dirs : \E direction \in {"into_future", "into_past"} :
        /\ ThingsFlowCount(dirs[d], direction) >= 2
        /\ dirs[d].png < ThingsFlowCount(dirs[d], direction)

FlyingThings3D(aug_params, dirs) ==
    LET base == FlowDataset(aug_params, FALSE)
        smp  == ThingsSamples(dirs) IN
    IF ThingsIndexError(dirs) THEN Raised("IndexError", base)
    ELSE Built([base EXCEPT
             !.image_list = [i \in DOMAIN smp |-> smp[i].image],
             !.flow_list  = [i \in DOMAIN smp |-> smp[i].flow]])

(***************************************************************************)
(* KITTI.__init__: n10 and n11 files *_10.png and *_11.png, nFlow flow     *)
(* files.                                                                  *)
(***************************************************************************)
KITTI(aug_params, split, n10, n11, nFlow) ==
    LET base == FlowDataset(aug_params, TRUE)
        n    == Min(n10, n11) IN
    Built([base EXCEPT
        !.is_test    = (split = "testing"),
        !.extra_info = [s \in 1..n |-> <<"frame_id", s, 10>>],
        !.image_list = [s \in 1..n |->
                           Pair(Path("kitti_png", s, 10), Path("kitti_png", s, 11))],
        !.flow_list  = IF split = "training"
                       THEN [s \in 1..nFlow |-> Path("kitti_flow_occ", s, 10)]
                       ELSE <<>>])

(***************************************************************************)
(* HD1K.__init__: seqs[s] holds the number of flow and image files of      *)
(* sequence index s - 1; an index past the end of seqs matches no file.    *)
(***************************************************************************)
RECURSIVE HD1KLoop(_, _, _)
HD1KLoop(d, seqs, s) ==
    IF s > Len(seqs) \/ seqs[s].flows = 0 THEN Built(d)
    ELSE IF seqs[s].flows >= 2 /\ seqs[s].images < seqs[s].flows
         THEN Raised("IndexError", d)
    ELSE HD1KLoop([d EXCEPT
             !.flow_list  = @ \o [i \in 1..(seqs[s].flows - 1) |->
                                     Path("hd1k_flow", s - 1, i)],
             !.image_list = @ \o [i \in 1..(seqs[s].flows - 1) |->
                                     Pair(Path("hd1k_png", s - 1, i),
                                          Path("hd1k_png", s - 1, i + 1))]],
             seqs, s + 1)

HD1K(aug_params, seqs) == HD1KLoop(FlowDataset(aug_params, TRUE), seqs, 1)

(***************************************************************************)
(* Object identity.  The list objects a dataset object allocates are named *)
(* by the dataset object (its place in the heap) and a number.  Fresh      *)
(* gives every sample reference of a newly built dataset its own list      *)
(* object; Deepcopy copies each distinct object once (copy.deepcopy keeps  *)
(* a memo), so aliasing inside the copy is that of the original and        *)
(* nothing is shared with it.                                              *)
(***************************************************************************)
Fresh(d, owner) ==
    [d EXCEPT !.image_list = [i \in DOMAIN @ |-> [@[i] EXCEPT !.ref = <<owner, i>>]]]

Refs(d) == {d.image_list[i].ref : i \in DOMAIN d.image_list}

FirstIndex(d, r) ==
    CHOOSE i \in DOMAIN d.image_list :
        /\ d.image_list[i].ref = r
        /\ \A j \in 1..(i - 1) : d.image_list[j].ref # r

CopyRef(d, owner, r) ==
    <<owner, Cardinality({FirstIndex(d, q) : q \in {x \in Refs(d) :
                                             FirstIndex(d, x) <= FirstIndex(d, r)}})>>

Deepcopy(d, owner) ==
    [d EXCEPT !.image_list =
        [i \in DOMAIN @ |-> [@[i] EXCEPT !.ref = CopyRef(d, owner, @)]]]

(***************************************************************************)
(* FlowDataset.__len__, __rmul__, __add__                                  *)
(***************************************************************************)
Length(d) == Len(d.image_list)

\* The repetition with only flow_list repeated.
RmulFlowsOnly(d, v, owner) ==
    LET self_copy == Deepcopy(d, owner) IN
    [self_copy EXCEPT !.flow_list = Repeat(@, v)]

Rmul(d, v, owner) ==
    LET self_copy == Deepcopy(d, owner) IN
    [self_copy EXCEPT !.flow_list  = Repeat(@, v),
                      !.image_list = Repeat(@, v)]

Add(self, other, owner) ==
    LET copied == Deepcopy(self, owner) IN
    [copied EXCEPT !.flow_list  = @ \o other.flow_list,
                   !.image_list = @ \o other.image_list]

(***************************************************************************)
(* FlowDataset.__getitem__ for a non-negative index.  What the decoders    *)
(* return is named by the decoder and the file it is given; the sample     *)
(* carries the augmentor applied to it.  The pixel level of the flow and   *)
(* of the validity mask is FlowAndValid below.                             *)
(***************************************************************************)
Exception(e) ==
    [kind |-> e, img1 |-> NoPath, img2 |-> NoPath, flow |-> <<"none", NoPath>>,
     valid |-> "none", augmentor |-> NoAugmentor, info |-> <<"none", 0, 0>>]

TestItem(d, index) ==
    IF index >= Len(d.image_list) THEN Exception("IndexError")
    ELSE IF index >= Len(d.extra_info) THEN Exception("IndexError")
    ELSE [kind |-> "test_sample",
          img1 |-> d.image_list[index + 1].img1,
          img2 |-> d.image_list[index + 1].img2,
          flow |-> <<"none", NoPath>>, valid |-> "none",
          augmentor |-> NoAugmentor,
          info |-> d.extra_info[index + 1]]

\* The non-test path without the modulo.
NoWrapIndex(d, index) == index

WrapIndex(d, index) == index % Len(d.image_list)

TrainItem(d, index) ==
    IF Len(d.image_list) = 0 THEN Exception("ZeroDivisionError")
    ELSE LET i == WrapIndex(d, index) IN
         IF i >= Len(d.flow_list) THEN Exception("IndexError")
         ELSE [kind |-> "sample",
               img1 |-> d.image_list[i + 1].img1,
               img2 |-> d.image_list[i + 1].img2,
               flow |-> <<IF d.sparse THEN "readFlowKITTI" ELSE "read_gen",
                          d.flow_list[i + 1]>>,
               valid |-> IF d.sparse THEN "readFlowKITTI" ELSE "derived",
               augmentor |-> d.augmentor,
               info |-> <<"none", 0, 0>>]

GetItem(d, index) == IF d.is_test THEN TestItem(d, index) ELSE TrainItem(d, index)

(***************************************************************************)
(* FlowDataset.shuffle with the permutation numpy drew: the first list     *)
(* comprehension raises IndexError, before anything is assigned, when      *)
(* flow_list is shorter than image_list.                                   *)
(***************************************************************************)
ShuffleRaises(d) == Len(d.flow_list) < Len(d.image_list)

ShuffleFlows(d, perm) == [i \in 1..Len(d.image_list) |-> d.flow_list[perm[i]]]

\* The shuffle with image_list left in place.
ShuffleImagesKept(d, perm) == [i \in 1..Len(d.image_list) |-> d.image_list[i]]

ShuffleImages(d, perm) == [i \in 1..Len(d.image_list) |-> d.image_list[perm[i]]]

Shuffle(d, perm) ==
    [d EXCEPT !.flow_list = ShuffleFlows(d, perm), !.image_list = ShuffleImages(d, perm)]

(***************************************************************************)
(* The pixel level of __getitem__ on the non-test path: the flow and the   *)
(* validity mask returned for the decoded flow (a sequence of pixels       *)
(* <<x, y>>) and, for sparse flow, the mask readFlowKITTI decoded.  The    *)
(* augmentor moves and rescales the flow (and the sparse mask with it).    *)
(***************************************************************************)
Threshold == 1000

Abs(x) == IF x < 0 THEN -x ELSE x

\* The comparison with the threshold included.
BelowOrAt(x) == Abs(x) <= Threshold

Below(x) == Abs(x) < Threshold

DerivedValid(flow) == [i \in DOMAIN flow |-> Below(flow[i][1]) /\ Below(flow[i][2])]

Transforms == {"identity", "hflip", "scale2"}

AugmentFlow(t, flow) ==
    CASE t = "hflip"  -> [i \in DOMAIN flow |->
                             <<-flow[Len(flow) + 1 - i][1], flow[Len(flow) + 1 - i][2]>>]
      [] t = "scale2" -> [i \in DOMAIN flow |-> <<2 * flow[i][1], 2 * flow[i][2]>>]
      [] OTHER        -> flow

AugmentValid(t, valid) ==
    CASE t = "hflip" -> [i \in DOMAIN valid |-> valid[Len(valid) + 1 - i]]
      [] OTHER       -> valid

NoValid == [none |-> TRUE, mask |-> <<>>]

FlowAndValid(sparse, augmented, t, flow_file, valid_file) ==
    LET valid0 == IF sparse THEN [none |-> FALSE, mask |-> valid_file] ELSE NoValid
        flow1  == IF augmented THEN AugmentFlow(t, flow_file) ELSE flow_file
        valid1 == IF augmented /\ sparse
                  THEN [none |-> FALSE, mask |-> AugmentValid(t, valid0.mask)]
                  ELSE valid0
    IN  [flow  |-> flow1,
         valid |-> IF ~valid1.none THEN valid1.mask ELSE DerivedValid(flow1)]

(***************************************************************************)
(* The directory trees the composition is explored over.                   *)
(***************************************************************************)
SintelTree == <<[scene |-> 1, png |-> 3, flo |-> 2]>>

ChairsTree == [images |-> 4, flows |-> 2, split_list |-> <<1, 2>>]

ThingsTree == <<[png |-> 2, future |-> 2, past |-> 2]>>

KittiTree == [n10 |-> 1, n11 |-> 1, flow |-> 1]

Hd1kTree == <<[flows |-> 2, images |-> 2]>>

(***************************************************************************)
(* State.                                                                  *)
(*   datasets  the dataset objects alive, in order of creation             *)
(*   last      the last operation and how it ended                         *)
(*   iter      the generator of __call__: its dataset, next index, status  *)
(*   scan      the last construction from a drawn directory tree           *)
(*   px        one item access at the pixel level                          *)
(***************************************************************************)
Op(op, a, b, k, res, exc) ==
    [op |-> op, a |-> a, b |-> b, k |-> k, res |-> res, exc |-> exc]

IterIdle == [ds |-> 0, idx |-> 0, status |-> "idle"]

ScanIdle == [cls |-> "none"]

PxIdle == [phase |-> "idle"]

Init ==
    /\ datasets = <<>>
    /\ last = Op("init", 0, 0, 0, 0, "none")
    /\ iter = IterIdle
    /\ scan = ScanIdle
    /\ px = PxIdle

Construct(cap, cls, r) ==
    /\ Len(datasets) < cap
    /\ r.exc = "none"
    /\ datasets' = Append(datasets, Fresh(r.ds, Len(datasets) + 1))
    /\ last' = Op(cls, 0, 0, 0, Len(datasets) + 1, "none")
    /\ UNCHANGED <<iter, scan, px>>

NewMpiSintel(cap) ==
    \E aug \in AugParams, split \in {"training", "test"} :
        Construct(cap, "MpiSintel", MpiSintel(aug, split, SintelTree))

NewFlyingChairs(cap) ==
    \E aug \in AugParams :
        Construct(cap, "FlyingChairs",
                  FlyingChairs(aug, "training", ChairsTree.images, ChairsTree.flows,
                               ChairsTree.split_list))

NewFlyingThings3D(cap) ==
    \E aug \in AugParams :
        Construct(cap, "FlyingThings3D", FlyingThings3D(aug, ThingsTree))

NewKITTI(cap) ==
    \E aug \in AugParams, split \in {"training", "testing"} :
        Construct(cap, "KITTI",
                  KITTI(aug, split, KittiTree.n10, KittiTree.n11, KittiTree.flow))

NewHD1K(cap) ==
    \E aug \in AugParams : Construct(cap, "HD1K", HD1K(aug, Hd1kTree))

DoAdd(cap) ==
    \E a, b \in DOMAIN datasets :
        LET r == Add(datasets[a], datasets[b], Len(datasets) + 1) IN
        /\ Len(datasets) < cap
        /\ Len(r.image_list) <= MaxLen
        /\ Len(r.flow_list) <= MaxLen
        /\ datasets' = Append(datasets, r)
        /\ last' = Op("add", a, b, 0, Len(datasets) + 1, "none")
        /\ UNCHANGED <<iter, scan, px>>

DoRmul(cap) ==
    \E a \in DOMAIN datasets, v \in 0..MaxRepeat :
        LET r == Rmul(datasets[a], v, Len(datasets) + 1) IN
        /\ Len(datasets) < cap
        /\ Len(r.image_list) <= MaxLen
        /\ Len(r.flow_list) <= MaxLen
        /\ datasets' = Append(datasets, r)
        /\ last' = Op("rmul", a, 0, v, Len(datasets) + 1, "none")
        /\ UNCHANGED <<iter, scan, px>>

DoShuffle ==
    \E a \in DOMAIN datasets :
        IF ShuffleRaises(datasets[a])
        THEN /\ last' = Op("shuffle", a, 0, 0, 0, "IndexError")
             /\ UNCHANGED <<datasets, iter, scan, px>>
        ELSE \E perm \in Perms(Length(datasets[a])) :
                /\ datasets' = [datasets EXCEPT ![a] = Shuffle(@, perm)]
                /\ last' = Op("shuffle", a, 0, 0, 0, "none")
                /\ UNCHANGED <<iter, scan, px>>

Next ==
    \/ NewMpiSintel(MaxDatasets)
    \/ NewFlyingChairs(MaxDatasets)
    \/ NewFlyingThings3D(MaxDatasets)
    \/ NewKITTI(MaxDatasets)
    \/ NewHD1K(MaxDatasets)
    \/ DoAdd(MaxDatasets)
    \/ DoRmul(MaxDatasets)
    \/ DoShuffle

Spec == Init /\ [][Next]_vars

(***************************************************************************)
(* FlowDataset.__call__: "for sample in self" on a class with __getitem__  *)
(* and no __iter__ asks for self[0], self[1], ... and ends at the first    *)
(* IndexError; any other exception leaves the generator.                   *)
(* The generator only reads: its specification composes datasets and      *)
(* iterates them, with next() calls interleaved with the composition.      *)
(***************************************************************************)
IterStart ==
    \E a \in DOMAIN datasets :
        /\ iter.status # "running"
        /\ iter' = [ds |-> a, idx |-> 0, status |-> "running"]
        /\ last' = Op("call", a, 0, 0, 0, "none")
        /\ UNCHANGED <<datasets, scan, px>>

IterNext ==
    /\ iter.status = "running"
    /\ iter.idx < MaxIter
    /\ LET r == GetItem(datasets[iter.ds], iter.idx) IN
       /\ iter' = IF r.kind = "IndexError" THEN [iter EXCEPT !.status = "done"]
                  ELSE IF r.kind \in {"sample", "test_sample"}
                       THEN [iter EXCEPT !.idx = @ + 1]
                  ELSE [iter EXCEPT !.status = "raised"]
       /\ last' = Op("next", iter.ds, 0, iter.idx, 0, r.kind)
    /\ UNCHANGED <<datasets, scan, px>>

NextIter ==
    \/ NewMpiSintel(MaxIterDatasets)
    \/ NewFlyingChairs(MaxIterDatasets)
    \/ NewFlyingThings3D(MaxIterDatasets)
    \/ NewKITTI(MaxIterDatasets)
    \/ NewHD1K(MaxIterDatasets)
    \/ DoAdd(MaxIterDatasets)
    \/ DoRmul(MaxIterDatasets)
    \/ IterStart
    \/ IterNext

SpecIter == Init /\ [][NextIter]_vars

(***************************************************************************)
(* Construction from a drawn directory tree: every variant's __init__ on   *)
(* every tree of at most MaxScanDirs directories of at most MaxFiles       *)
(* files (trees the format does not allow included), one construction per  *)
(* behaviour.  The object of a constructor that raises is never bound.     *)
(***************************************************************************)
SeqsUpTo(S, n) == UNION {[1..k -> S] : k \in 0..n}

Counts == 0..MaxFiles

Scanned(r) ==
    /\ datasets' = IF r.exc = "none" THEN <<Fresh(r.ds, 1)>> ELSE <<>>
    /\ UNCHANGED <<iter, px>>

ScanMpiSintel ==
    /\ scan.cls = "none"
    /\ \E aug \in AugParams, split \in {"training", "test"},
       scenes \in SeqsUpTo([scene : 1..MaxScanDirs, png : Counts, flo : Counts], MaxScanDirs) :
        LET r == MpiSintel(aug, split, scenes) IN
        /\ \A i, j \in DOMAIN scenes : scenes[i].scene = scenes[j].scene => i = j
        /\ Scanned(r)
        /\ scan' = [cls |-> "MpiSintel", split |-> split, scenes |-> scenes]
        /\ last' = Op("MpiSintel", 0, 0, 0, 1, r.exc)

ScanFlyingChairs ==
    /\ scan.cls = "none"
    /\ \E aug \in AugParams, split \in {"training", "validation"},
       nImages \in 0..(2 * MaxFiles + 1), nFlows \in Counts,
       split_list \in SeqsUpTo({1, 2}, MaxFiles) :
        LET r == FlyingChairs(aug, split, nImages, nFlows, split_list) IN
        /\ Scanned(r)
        /\ scan' = [cls |-> "FlyingChairs", split |-> split, nImages |-> nImages,
                    nFlows |-> nFlows, split_list |-> split_list,
                    added |-> Len(r.ds.image_list)]
        /\ last' = Op("FlyingChairs", 0, 0, 0, 1, r.exc)

ScanFlyingThings3D ==
    /\ scan.cls = "none"
    /\ \E aug \in AugParams,
       dirs \in SeqsUpTo([png : Counts, future : Counts, past : Counts], MaxScanDirs) :
        LET r == FlyingThings3D(aug, dirs) IN
        /\ Scanned(r)
        /\ scan' = [cls |-> "FlyingThings3D", dirs |-> dirs]
        /\ last' = Op("FlyingThings3D", 0, 0, 0, 1, r.exc)

ScanKITTI ==
    /\ scan.cls = "none"
    /\ \E aug \in AugParams, split \in {"training", "testing"},
       n10 \in Counts, n11 \in Counts, nFlow \in Counts :
        LET r == KITTI(aug, split, n10, n11, nFlow) IN
        /\ Scanned(r)
        /\ scan' = [cls |-> "KITTI", split |-> split, n10 |-> n10, n11 |-> n11,
                    nFlow |-> nFlow]
        /\ last' = Op("KITTI", 0, 0, 0, 1, r.exc)

ScanHD1K ==
    /\ scan.cls = "none"
    /\ \E aug \in AugParams, seqs \in SeqsUpTo([flows : Counts, images : Counts], MaxScanDirs) :
        LET r == HD1K(aug, seqs) IN
        /\ Scanned(r)
        /\ scan' = [cls |-> "HD1K", seqs |-> seqs]
        /\ last' = Op("HD1K", 0, 0, 0, 1, r.exc)

NextScan ==
    \/ ScanMpiSintel
    \/ ScanFlyingChairs
    \/ ScanFlyingThings3D
    \/ ScanKITTI
    \/ ScanHD1K

SpecScan == Init /\ [][NextScan]_vars

(***************************************************************************)
(* One item access at the pixel level, for every decoded flow of two       *)
(* pixels with components around the threshold.                            *)
(***************************************************************************)
Pixels == {1, 2}

Components == {-1000, -999, 0, 5, 999, 1000, 2000}

PxInputs ==
    [phase : {"input"}, sparse : {FALSE}, augmented : BOOLEAN, t : Transforms,
     flow : [Pixels -> Components \X Components], mask : {[i \in Pixels |-> FALSE]}]
    \cup
    [phase : {"input"}, sparse : {TRUE}, augmented : BOOLEAN, t : Transforms,
     flow : [Pixels -> Components \X Components], mask : [Pixels -> BOOLEAN]]

InitValid ==
    /\ datasets = <<>>
    /\ last = Op("init", 0, 0, 0, 0, "none")
    /\ iter = IterIdle
    /\ scan = ScanIdle
    /\ px \in PxInputs

GetPixels ==
    /\ px.phase = "input"
    /\ px' = [phase |-> "done", sparse |-> px.sparse, augmented |-> px.augmented,
              t |-> px.t, flow |-> px.flow, mask |-> px.mask,
              out |-> FlowAndValid(px.sparse, px.augmented, px.t, px.flow, px.mask)]
    /\ UNCHANGED <<datasets, last, iter, scan>>

NextValid == GetPixels

SpecValid == InitValid /\ [][NextValid]_vars

(***************************************************************************)
(* Properties.                                                             *)
(***************************************************************************)
D(i) == datasets[i]

Paths(e) == <<e.img1, e.img2>>

SameMode(x, y) ==
    /\ x.is_test = y.is_test
    /\ x.sparse = y.sparse
    /\ x.augmentor = y.augmentor

\* C1: after r = A + B, r[i] equals A[i] for i < len(A) and B[i - len(A)] for
\* i >= len(A), for every index 0 <= i < len(r).  Stated for operands of one
\* mode (same test mode, sparse flag and augmentor), the case every reading of
\* the claim covers.
C1_ConcatGet ==
    (last.op = "add" /\ SameMode(D(last.a), D(last.b))) =>
        \A i \in 0..(Length(D(last.res)) - 1) :
            GetItem(D(last.res), i) =
                IF i < Length(D(last.a))
                THEN GetItem(D(last.a), i)
                ELSE GetItem(D(last.b), i - Length(D(last.a)))

\* C2: every dataset built by a constructor and any sequence of +, k * and
\* shuffle() has as many flows as samples when it is not in test mode, and in
\* test mode has no flow and exactly one metadata entry per sample.
C2_ListInvariant ==
    \A i \in DOMAIN datasets :
        /\ ~D(i).is_test => Len(D(i).flow_list) = Len(D(i).image_list)
        /\ D(i).is_test => /\ D(i).flow_list = <<>>
                           /\ Len(D(i).extra_info) = Len(D(i).image_list)

\* C3: a shuffle() of a non-test dataset applies one permutation to
\* image_list and to flow_list: every sample reference keeps the flow it was
\* paired with, and both lists keep their elements and lengths.  (Where
\* flow_list is shorter than image_list the call raises and changes nothing.)
C3_ShuffleAligned ==
    [][(last'.op = "shuffle" /\ ~D(last'.a).is_test) =>
        LET before == datasets[last'.a]
            after  == datasets'[last'.a]
        IN  IF last'.exc = "none"
            THEN /\ Len(after.image_list) = Len(before.image_list)
                 /\ Len(after.flow_list) = Len(before.flow_list)
                 /\ \E p \in Perms(Len(before.image_list)) :
                        \A i \in 1..Len(before.image_list) :
                            /\ after.image_list[i] = before.image_list[p[i]]
                            /\ after.flow_list[i] = before.flow_list[p[i]]
            ELSE /\ Len(before.flow_list) < Len(before.image_list)
                 /\ after = before]_vars

C3_Witness ==
    /\ last.op = "shuffle"
    /\ last.exc = "none"
    /\ ~D(last.a).is_test
    /\ Length(D(last.a)) >= 2
    /\ D(last.a).image_list[1].ref = <<last.a, 2>>

\* C4: the result of A + B and of k * A shares no mutable object with an
\* operand: no list object of the result's image_list is a list object of
\* A's or of B's image_list.
C4_NoSharedState ==
    (last.op \in {"add", "rmul"}) =>
        /\ Refs(D(last.res)) \cap Refs(D(last.a)) = {}
        /\ last.op = "add" => Refs(D(last.res)) \cap Refs(D(last.b)) = {}

C6_IndexWrap ==
    \A a \in DOMAIN datasets : \A index \in 0..MaxIndex :
        LET n == Length(D(a)) IN
        /\ (D(a).is_test /\ index >= n) => GetItem(D(a), index).kind = "IndexError"
        /\ (~D(a).is_test /\ n > 0) =>
               /\ GetItem(D(a), index) = GetItem(D(a), index % n)
               /\ Len(D(a).flow_list) >= n =>
                      /\ GetItem(D(a), index).kind = "sample"
                      /\ GetItem(D(a), index).img1 = D(a).image_list[(index % n) + 1].img1
                      /\ GetItem(D(a), index).flow[2] = D(a).flow_list[(index % n) + 1]

C6_Witness ==
    /\ iter.status = "running"
    /\ ~D(iter.ds).is_test
    /\ iter.idx > Length(D(iter.ds))
    /\ last.op = "next"
    /\ last.exc = "sample"

\* C7 as claimed: FlyingChairs construction fails whenever the number of
\* images is not exactly twice the number of flows.
C7_ChairsExactlyTwice ==
    (scan.cls = "FlyingChairs" /\ scan.nImages # 2 * scan.nFlows) => last.exc # "none"

\* C7 as amended: FlyingChairs construction raises AssertionError, before any
\* sample is added, exactly when floor(images / 2) differs from the number of
\* flows; 3 images and 1 flow pass the check.
C7_ChairsAssert ==
    scan.cls = "FlyingChairs" =>
        /\ (scan.nImages \div 2 # scan.nFlows) <=> (last.exc = "AssertionError")
        /\ last.exc = "AssertionError" => (scan.added = 0 /\ datasets = <<>>)
        /\ (scan.nImages = 3 /\ scan.nFlows = 1) => last.exc # "AssertionError"

C7_Witness ==
    /\ scan.cls = "FlyingChairs"
    /\ scan.nImages = 4
    /\ scan.nFlows = 1
    /\ last.exc = "AssertionError"
    /\ scan.added = 0

\* The samples the pairing rule gives for the drawn directory pairs.
ThingsExpected(dirs) ==
    UNION {{<<Path("things_png", d, i), Path("things_png", d, i + 1),
              Path("things_into_future", d, i)>> : i \in 1..(dirs[d].future - 1)}
           \cup
           {<<Path("things_png", d, i + 1), Path("things_png", d, i),
              Path("things_into_past", d, i + 1)>> : i \in 1..(dirs[d].past - 1)}
           : d \in DOMAIN dirs}

\* C8: FlyingThings3D adds, for every directory pair, exactly the forward
\* samples (f[i], f[i+1]) with flow g[i] and the backward samples
\* (f[i+1], f[i]) with the backward flow g[i+1], i over all but the last flow.
C8_ThingsPairs ==
    (scan.cls = "FlyingThings3D" /\ last.exc = "none") =>
        LET d == datasets[1] IN
        /\ Len(d.flow_list) = Len(d.image_list)
        /\ {<<d.image_list[i].img1, d.image_list[i].img2, d.flow_list[i]>> :
               i \in DOMAIN d.image_list} = ThingsExpected(scan.dirs)
        /\ Len(d.image_list) = Cardinality(ThingsExpected(scan.dirs))

C8_Witness ==
    /\ scan.cls = "FlyingThings3D"
    /\ scan.dirs = <<[png |-> 3, future |-> 3, past |-> 3]>>
    /\ last.exc = "none"
    /\ Len(datasets[1].image_list) = 4
    /\ Paths(datasets[1].image_list[3]) = <<Path("things_png", 1, 2), Path("things_png", 1, 1)>>
    /\ datasets[1].flow_list[3] = Path("things_into_past", 1, 2)
    /\ Paths(datasets[1].image_list[4]) = <<Path("things_png", 1, 3), Path("things_png", 1, 2)>>
    /\ datasets[1].flow_list[4] = Path("things_into_past", 1, 3)

\* C9: for dense flow the returned validity of a pixel is true exactly when
\* both components of its returned flow are strictly inside (-1000, 1000);
\* flow (2000, 0), (5, 5) gives [False, True]; for sparse flow the decoded mask
\* (as the augmentor returned it) is what is returned.
C9_DerivedValid ==
    px.phase = "done" =>
        /\ ~px.sparse =>
               \A i \in Pixels :
                   px.out.valid[i] <=>
                       /\ -1000 < px.out.flow[i][1] /\ px.out.flow[i][1] < 1000
                       /\ -1000 < px.out.flow[i][2] /\ px.out.flow[i][2] < 1000
        /\ (~px.sparse /\ ~px.augmented /\ px.flow = <<<<2000, 0>>, <<5, 5>>>>) =>
               px.out.valid = <<FALSE, TRUE>>
        /\ px.sparse =>
               px.out.valid = IF px.augmented THEN AugmentValid(px.t, px.mask) ELSE px.mask

C9_Witness ==
    /\ px.phase = "done"
    /\ ~px.sparse
    /\ ~px.augmented
    /\ px.flow = <<<<2000, 0>>, <<5, 5>>>>
    /\ px.out.valid = <<FALSE, TRUE>>

\* C10: the generator of __call__ yields items 0, 1, ... and ends after
\* exactly len samples: it never yields more than len, and when it has ended
\* it has yielded len.
C10_IterTerminates ==
    iter.status # "idle" =>
        /\ iter.idx <= Length(D(iter.ds))
        /\ iter.status = "done" => iter.idx = Length(D(iter.ds))

====
